---- MODULE Spec2Model ----
(***************************************************************************)
(* Time series replication (cognite/replicator/time_series.py): a run of   *)
(* replicate lists the source and the destination project, matches source  *)
(* time series to destination replicas by provenance metadata, creates or  *)
(* updates the replicas (inline, or chunked over worker threads) and then  *)
(* optionally sweeps the destination.                                      *)
(*                                                                         *)
(* The helpers of the sibling module `replication` (new_metadata,          *)
(* get_asset_ids, make_id_object_map, existing_mapping,                    *)
(* make_objects_batch, retry, thread) are imported at line 8 and are not   *)
(* part of the source tree; they are modelled from spec.md sections 4.1 to *)
(* 4.7.                                                                    *)
(***************************************************************************)
EXTENDS Integers, Sequences, FiniteSets, TLC

(***************************************************************************)
(* Bounds of the model.                                                    *)
(***************************************************************************)
MaxDst == 2
MaxBatch == 2
MaxThreads == 2
MaxRuns == 2

(***************************************************************************)
(* Values.  None is modelled as "None" for string fields and as 0 for      *)
(* ids; a metadata mapping is a function from keys to string values, and   *)
(* None and {} are both the function with the empty domain: every read of  *)
(* metadata in the source is behind the truthiness test `ts.metadata and`, *)
(* which treats the two alike.                                             *)
(***************************************************************************)
NoMetadata == <<>>

KSource == "_replicatedSource"
KTime == "_replicatedTime"
KInternalId == "_replicatedInternalId"

project_src == "src_project"
project_dst == "dst_project"

\* str(n) for the integers the model writes into metadata.
DecimalText == <<"1", "2", "3", "4", "5", "6", "7", "8", "9">>
IntToStr(n) == DecimalText[n]

\* int(s): whether a string parses (otherwise ValueError) and the integer
\* it parses to.
ParsesAsInt(s) == \E n \in 1..Len(DecimalText) : DecimalText[n] = s
ParseInt(s) == CHOOSE n \in 1..Len(DecimalText) : DecimalText[n] = s

\* str(runtime): int(time.time()) * 1000 of the run whose clock reading is t.
TimeText == <<"1000", "2000", "3000", "4000">>
Runtime(t) == t * 1000
RuntimeStr(rt) == TimeText[rt \div 1000]

\* Python truthiness of a metadata value (a string): "" is false.
Truthy(s) == s # ""
\* Python truthiness of a metadata mapping: None and {} are false.
HasMetadata(ts) == DOMAIN ts.metadata # {}

(***************************************************************************)
(* Time series objects.                                                    *)
(***************************************************************************)
TimeSeries(id, external_id, name, is_string, metadata, unit, asset_id, is_step, description, security_categories, legacy_name) ==
    [id |-> id, external_id |-> external_id, name |-> name,
     is_string |-> is_string, metadata |-> metadata, unit |-> unit,
     asset_id |-> asset_id, is_step |-> is_step, description |-> description,
     security_categories |-> security_categories, legacy_name |-> legacy_name]

\* The names a source time series may carry, and the substring test
\* `"service_account_metrics" in ts.name` on them.
PlainName(i) == <<"pump_1", "pump_2">>[i]
ServiceName == "x_service_account_metrics_y"
ContainsServiceAccountMetrics(name) ==
    name \in {"service_account_metrics", ServiceName}

\* The ids of the time series the source project may hold.
SrcIds == {1, 2}

\* Source asset ids: 7 has a replica (70) in the destination, 9 has none.
AssetOfSrc(i) == <<7, 9>>[i]

SrcSeries(i, service) ==
    TimeSeries(i, IntToStr(i),
               IF service THEN ServiceName ELSE PlainName(i),
               FALSE,
               IF i = 1 THEN ("site" :> "north") ELSE NoMetadata,
               "bar", AssetOfSrc(i), i = 2, "d", {i}, "None")

\* The destination's assets: one replica of source asset 7.
assets_dst_store ==
    <<[id |-> 70, metadata |-> (KInternalId :> "7") @@ (KSource :> project_src)]>>

(***************************************************************************)
(* replication.new_metadata, replication.get_asset_ids,                    *)
(* replication.existing_mapping, replication.make_id_object_map.           *)
(***************************************************************************)
new_metadata(obj, project, runtime) ==
    (KSource :> project) @@ (KTime :> RuntimeStr(runtime))
      @@ (KInternalId :> IntToStr(obj.id)) @@ obj.metadata

\* get_asset_ids([id], map)[0]: the mapped id, None when absent from the map.
get_asset_id(id, src_dst_ids_assets) ==
    IF id \in DOMAIN src_dst_ids_assets THEN src_dst_ids_assets[id] ELSE 0

\* An object whose provenance id is present and parses.
HasValidProvenance(obj) ==
    /\ KInternalId \in DOMAIN obj.metadata
    /\ ParsesAsInt(obj.metadata[KInternalId])

RECURSIVE existing_mapping(_)
existing_mapping(objects) ==
    IF objects = <<>> THEN <<>>
    ELSE LET rest == existing_mapping(Tail(objects))
             o == Head(objects)
         IN IF HasValidProvenance(o)
            THEN rest @@ (ParseInt(o.metadata[KInternalId]) :> o.id)
            ELSE rest

\* Source id -> matched destination object; a later object of the listing
\* replaces an earlier one with the same provenance id.
RECURSIVE make_id_object_map(_)
make_id_object_map(objects) ==
    IF objects = <<>> THEN <<>>
    ELSE LET rest == make_id_object_map(Tail(objects))
             o == Head(objects)
         IN IF HasValidProvenance(o)
            THEN rest @@ (ParseInt(o.metadata[KInternalId]) :> o)
            ELSE rest

(***************************************************************************)
(* create_time_series, update_time_series, filter_away_service_account_ts. *)
(***************************************************************************)
\* create_time_series giving the new time series the source's own parent id.
create_time_series_src_parent(src_ts, src_dst_ids_assets, project, runtime) ==
    TimeSeries(0, src_ts.external_id, src_ts.name, src_ts.is_string,
               new_metadata(src_ts, project, runtime), src_ts.unit,
               src_ts.asset_id,
               src_ts.is_step, src_ts.description, src_ts.security_categories,
               src_ts.external_id)

create_time_series(src_ts, src_dst_ids_assets, project, runtime) ==
    TimeSeries(0, src_ts.external_id, src_ts.name, src_ts.is_string,
               new_metadata(src_ts, project, runtime), src_ts.unit,
               IF src_ts.asset_id # 0
               THEN get_asset_id(src_ts.asset_id, src_dst_ids_assets) ELSE 0,
               src_ts.is_step, src_ts.description, src_ts.security_categories,
               src_ts.external_id)

\* update_time_series leaving the destination object's metadata as it was.
update_time_series_keeps_metadata(src_ts, dst_ts, src_dst_ids_assets, project, runtime) ==
    [dst_ts EXCEPT
       !.external_id = src_ts.external_id,
       !.name = src_ts.name,
       !.is_string = src_ts.is_string,
       !.unit = src_ts.unit,
       !.asset_id = IF src_ts.asset_id # 0
                    THEN get_asset_id(src_ts.asset_id, src_dst_ids_assets)
                    ELSE 0,
       !.is_step = src_ts.is_step,
       !.description = src_ts.description,
       !.security_categories = src_ts.security_categories]

\* The attributes of dst_ts are assigned one by one and dst_ts is returned:
\* id and legacy_name keep the destination object's values.
update_time_series(src_ts, dst_ts, src_dst_ids_assets, project, runtime) ==
    [dst_ts EXCEPT
       !.external_id = src_ts.external_id,
       !.name = src_ts.name,
       !.is_string = src_ts.is_string,
       !.metadata = new_metadata(src_ts, project, runtime),
       !.unit = src_ts.unit,
       !.asset_id = IF src_ts.asset_id # 0
                    THEN get_asset_id(src_ts.asset_id, src_dst_ids_assets)
                    ELSE 0,
       !.is_step = src_ts.is_step,
       !.description = src_ts.description,
       !.security_categories = src_ts.security_categories]

filter_away_service_account_ts(ts_list) ==
    SelectSeq(ts_list, LAMBDA ts : ~ContainsServiceAccountMetrics(ts.name))

(***************************************************************************)
(* The destination project's time series API, as the run uses it: a bulk   *)
(* call is applied as a whole (spec.md section 7).                         *)
(***************************************************************************)
DstCreate(store, materials, first_id) ==
    store \o [i \in 1..Len(materials) |->
                 [materials[i] EXCEPT !.id = first_id + i - 1]]

DstUpdate(store, patches) ==
    [i \in 1..Len(store) |->
        IF \E j \in 1..Len(patches) : patches[j].id = store[i].id
        THEN patches[CHOOSE j \in 1..Len(patches) : patches[j].id = store[i].id]
        ELSE store[i]]

DstDelete(store, ids) == SelectSeq(store, LAMBDA ts : ts.id \notin ids)

Ids(list) == {list[i].id : i \in 1..Len(list)}

(***************************************************************************)
(* replication.make_objects_batch: one pass over the source objects, each  *)
(* handed to update (with its matched destination object) when its id is a *)
(* key of the identity map, to create otherwise.  update_time_series       *)
(* assigns to the matched object itself, so the object held by the         *)
(* identity map changes with it: `map` is the identity map afterwards.     *)
(***************************************************************************)
RECURSIVE make_objects_batch(_, _, _, _, _)
make_objects_batch(src_objects, src_id_dst_obj, assets, project, runtime) ==
    IF src_objects = <<>>
    THEN [create |-> <<>>, update |-> <<>>, unchanged |-> <<>>,
          map |-> src_id_dst_obj]
    ELSE LET o == Head(src_objects)
             matched == o.id \in DOMAIN src_id_dst_obj
             made == IF matched
                     THEN update_time_series(o, src_id_dst_obj[o.id], assets,
                                             project, runtime)
                     ELSE create_time_series(o, assets, project, runtime)
             map1 == IF matched
                     THEN [src_id_dst_obj EXCEPT ![o.id] = made]
                     ELSE src_id_dst_obj
             rest == make_objects_batch(Tail(src_objects), map1, assets,
                                        project, runtime)
         IN [create |-> IF matched THEN rest.create
                        ELSE <<made>> \o rest.create,
             update |-> IF matched THEN <<made>> \o rest.update
                        ELSE rest.update,
             unchanged |-> rest.unchanged,
             map |-> rest.map]

\* copy_ts handing make_objects_batch the asset map as the identity map.
copy_ts_batch_wrong_map(src_ts, src_id_dst_ts, assets, project, runtime) ==
    make_objects_batch(src_ts, assets, assets, project, runtime)

\* copy_ts handing make_objects_batch an empty identity map.
copy_ts_batch_empty_map(src_ts, src_id_dst_ts, assets, project, runtime) ==
    make_objects_batch(src_ts, <<>>, assets, project, runtime)

\* copy_ts, lines 107-115: the three lists of the batch.
copy_ts_batch(src_ts, src_id_dst_ts, assets, project, runtime) ==
    make_objects_batch(src_ts, src_id_dst_ts, assets, project, runtime)

(***************************************************************************)
(* remove_not_replicated_in_dst (sweep A).  The loop reads                 *)
(* ts.metadata["_replicatedSource"] of every time series with a non-empty  *)
(* metadata: the subscript raises KeyError when the key is absent, before  *)
(* any delete call.                                                        *)
(***************************************************************************)
IsCopied(ts) == HasMetadata(ts) /\ Truthy(ts.metadata[KSource])

SweepARaises(dst_list) ==
    \E i \in 1..Len(dst_list) :
        HasMetadata(dst_list[i]) /\ KSource \notin DOMAIN dst_list[i].metadata

not_copied_list(dst_list) ==
    {dst_list[i].id : i \in {j \in 1..Len(dst_list) : ~IsCopied(dst_list[j])}}

remove_not_replicated_in_dst(dst_list) ==
    IF SweepARaises(dst_list)
    THEN [err |-> "KeyError", deleted |-> {}, listing |-> dst_list]
    ELSE [err |-> "", deleted |-> not_copied_list(dst_list),
          listing |-> dst_list]

(***************************************************************************)
(* remove_replicated_if_not_in_src (sweep B).  dst_id_list is a dict keyed *)
(* by int(metadata["_replicatedInternalId"]): a later time series of the   *)
(* listing with the same key replaces the earlier one.  The subscript      *)
(* raises KeyError when a non-empty metadata lacks the key, int() raises   *)
(* ValueError on a value that does not parse; nothing catches either.      *)
(***************************************************************************)
SweepBSelects(ts) == HasMetadata(ts) /\ Truthy(ts.metadata[KInternalId])

SweepBError(ts) ==
    IF ~HasMetadata(ts) THEN ""
    ELSE IF KInternalId \notin DOMAIN ts.metadata THEN "KeyError"
    ELSE IF Truthy(ts.metadata[KInternalId])
            /\ ~ParsesAsInt(ts.metadata[KInternalId]) THEN "ValueError"
    ELSE ""

\* The error of the first time series of the listing that raises one.
SweepBRaises(ts_dst_list) ==
    LET bad == {i \in 1..Len(ts_dst_list) : SweepBError(ts_dst_list[i]) # ""}
    IN IF bad = {} THEN ""
       ELSE SweepBError(ts_dst_list[CHOOSE i \in bad : \A j \in bad : i <= j])

RECURSIVE dst_id_list(_)
dst_id_list(ts_dst_list) ==
    IF ts_dst_list = <<>> THEN <<>>
    ELSE LET rest == dst_id_list(Tail(ts_dst_list))
             ts == Head(ts_dst_list)
         IN IF SweepBSelects(ts)
            THEN rest @@ (ParseInt(ts.metadata[KInternalId]) :> ts.id)
            ELSE rest

diff_list(src_ids, ts_dst_list) ==
    LET d == dst_id_list(ts_dst_list)
    IN {d[k] : k \in {x \in DOMAIN d : x \notin src_ids}}

remove_replicated_if_not_in_src(src_list, ts_dst_list) ==
    IF SweepBRaises(ts_dst_list) # ""
    THEN [err |-> SweepBRaises(ts_dst_list), deleted |-> {},
          src_listing |-> src_list, listing |-> ts_dst_list]
    ELSE [err |-> "", deleted |-> diff_list(Ids(src_list), ts_dst_list),
          src_listing |-> src_list, listing |-> ts_dst_list]

(***************************************************************************)
(* replication.retry and replication.thread.                               *)
(***************************************************************************)
\* The attempts retry makes before it gives up with PersistentFailure.
MaxTries == 3

\* What one attempt of a bulk call ends in.
Outcomes == {"ok", "transient", "fatal"}

\* retry that never gives up on a transient error.
retry_step_forever(outcome, calls) ==
    CASE outcome = "ok" -> "ok"
      [] outcome = "fatal" -> "APIError"
      [] OTHER -> "again"

\* retry that treats every error as transient.
retry_step_any_error(outcome, calls) ==
    CASE outcome = "ok" -> "ok"
      [] calls < MaxTries -> "again"
      [] OTHER -> "PersistentFailure"

\* retry after an attempt that ended in `outcome`, `calls` attempts made so
\* far (this one included): the result, or "again" for one more attempt.
retry_step(outcome, calls) ==
    CASE outcome = "ok" -> "ok"
      [] outcome = "fatal" -> "APIError"
      [] outcome = "transient" /\ calls < MaxTries -> "again"
      [] OTHER -> "PersistentFailure"

\* Contiguous chunks of `len` objects, the last one possibly shorter.
RECURSIVE ChunksOf(_, _)
ChunksOf(list, len) ==
    IF Len(list) <= len THEN (IF list = <<>> THEN <<>> ELSE <<list>>)
    ELSE <<SubSeq(list, 1, len)>> \o ChunksOf(SubSeq(list, len + 1, Len(list)), len)

\* The chunk lengths thread may use.  replicate hands thread num_threads
\* and the objects, and no batch_size (lines 230-239): the length is not
\* a function of batch_size, and any length is modelled.
thread_chunk_lens(num_threads, src_objects) == 1..Len(src_objects)

\* A call of copy_ts: its objects, where it is (st), the lists it made, the
\* attempts of the bulk call it is in or failed in (calls), the outcome of
\* the latest attempt (last), the error it ended in (out), and the bulk
\* call that raised it (failed_in).
NewChunk(objs) ==
    [objs |-> objs, st |-> "pending", create_ts |-> <<>>, update_ts |-> <<>>,
     unchanged_ts |-> <<>>, calls |-> 0, last |-> "", out |-> "", failed_in |-> ""]

(***************************************************************************)
(* State.                                                                  *)
(***************************************************************************)
VARIABLES
    src,                 \* the source project's time series, in listing order
    dst,                 \* the destination project's time series
    next_id,             \* the id the destination gives the next created one
    args,                \* replicate's batch_size, num_threads and flags
    clock,               \* time.time(), in seconds
    run,                 \* the number of the run of replicate
    pc,                  \* where the run is
    mode,                \* "inline" (line 241) or "thread" (line 230)
    ts_src, ts_dst, src_id_dst_ts, src_dst_ids_assets, ts_src_not_service,
    replicated_runtime,  \* replicate's locals
    chunks,              \* the calls of copy_ts of the run
    sweepA_log,          \* what remove_not_replicated_in_dst did in the run
    sweepB_log,          \* what remove_replicated_if_not_in_src did
    dst_before,          \* the destination when the run began
    list_err,            \* the listing call of lines 201-208 that raised
    other                \* a second run of replicate, at work at the same time

vars == <<src, dst, next_id, args, clock, run, pc, mode, ts_src, ts_dst, src_id_dst_ts, src_dst_ids_assets, ts_src_not_service, replicated_runtime, chunks, sweepA_log, sweepB_log, dst_before, list_err, other>>

locals == <<ts_src, ts_dst, src_id_dst_ts, src_dst_ids_assets, ts_src_not_service, replicated_runtime>>

stores == <<src, dst, next_id>>

NoSweepA == [ran |-> FALSE, err |-> "", deleted |-> {}, listing |-> <<>>]
NoSweepB == [ran |-> FALSE, err |-> "", deleted |-> {}, listing |-> <<>>, src_listing |-> <<>>]

\* No listing call has raised; no second run is at work.
NoListErr == [call |-> "", outcome |-> ""]
NoOther == [pc |-> "off", ts_dst |-> <<>>, create_ts |-> <<>>, update_ts |-> <<>>]

(***************************************************************************)
(* Initial states: a source listing (ids unique, the time series with id 2 *)
(* possibly a service account metric), a destination listing of time       *)
(* series with any of the metadata shapes, and the arguments of replicate. *)
(***************************************************************************)
Provenance(tag) ==
    (KSource :> project_src) @@ (KTime :> "1000") @@ (KInternalId :> tag)

DstShapes ==
    { NoMetadata,                        \* created in the destination
      ("site" :> "south"),               \* metadata without provenance
      Provenance("1"), Provenance("2"),  \* replicas of source ids 1 and 2
      Provenance("x"),                   \* provenance id that does not parse
      (KSource :> "") @@ (KInternalId :> "") }  \* keys with empty values

DstSeries(i, metadata) ==
    TimeSeries(10 + i, "old", "old_name", TRUE, metadata, "psi", 0, FALSE, "old", {}, "old")

RECURSIVE SrcListing(_, _)
SrcListing(ids, service) ==
    IF ids = {} THEN <<>>
    ELSE LET m == CHOOSE i \in ids : \A j \in ids : i <= j
         IN <<SrcSeries(m, service /\ m = 2)>> \o SrcListing(ids \ {m}, service)

SrcListings ==
    {SrcListing(ids, service) : ids \in SUBSET SrcIds, service \in BOOLEAN}

DstListings ==
    UNION {{[i \in 1..n |-> DstSeries(i, shape[i])] : shape \in [1..n -> DstShapes]} : n \in 0..MaxDst}

Arguments ==
    [batch_size : 1..MaxBatch, num_threads : 1..MaxThreads,
     delete_replicated_if_not_in_src : BOOLEAN,
     delete_not_replicated_in_dst : BOOLEAN]

\* replicate is called on a source and a destination of the given listings.
InitOn(src_listings, dst_listings) ==
    /\ src \in src_listings
    /\ dst \in dst_listings
    /\ next_id = 11 + Len(dst)
    /\ args \in Arguments
    /\ clock = 2
    /\ run = 1
    /\ pc = "start"
    /\ mode = "inline"
    /\ ts_src = <<>> /\ ts_dst = <<>> /\ src_id_dst_ts = <<>>
    /\ src_dst_ids_assets = <<>> /\ ts_src_not_service = <<>>
    /\ replicated_runtime = 0
    /\ chunks = <<>>
    /\ sweepA_log = NoSweepA
    /\ sweepB_log = NoSweepB
    /\ dst_before = dst
    /\ list_err = NoListErr
    /\ other = NoOther

Init == InitOn(SrcListings, DstListings)

(***************************************************************************)
(* replicate, lines 198-222: the listings, the identity map, the asset map *)
(* and the run's timestamp.                                                *)
(***************************************************************************)
ReplicateList ==
    /\ pc = "start"
    /\ ts_src' = src
    /\ ts_dst' = dst
    /\ src_id_dst_ts' = make_id_object_map(dst)
    /\ src_dst_ids_assets' = existing_mapping(assets_dst_store)
    /\ ts_src_not_service' = filter_away_service_account_ts(src)
    /\ replicated_runtime' = Runtime(clock)
    /\ pc' = "listed"
    /\ UNCHANGED <<stores, args, list_err, other, clock, run, mode, chunks, sweepA_log, sweepB_log, dst_before>>

\* The sweep of stale replicas run whatever its flag.
AfterCopyAlwaysSweeps == "sweepB"

\* The sweep of unreplicated time series run first.
AfterCopyUnreplicatedFirst ==
    IF args.delete_not_replicated_in_dst THEN "sweepA"
    ELSE IF args.delete_replicated_if_not_in_src THEN "sweepB"
    ELSE "done"

\* Where the run goes when the copying is over (lines 255-266).
AfterCopy ==
    IF args.delete_replicated_if_not_in_src THEN "sweepB"
    ELSE IF args.delete_not_replicated_in_dst THEN "sweepA"
    ELSE "done"

AfterSweepB == IF args.delete_not_replicated_in_dst THEN "sweepA" ELSE "done"

\* The decision of line 229 taken on the whole source list.
UseThreadsOnAllSource == Len(ts_src) > args.batch_size

\* Lines 229 and 240-248: one call of copy_ts on the whole list.
UseThreads == Len(ts_src_not_service) > args.batch_size

InlineDispatch ==
    /\ pc = "listed"
    /\ ~UseThreads
    /\ mode' = "inline"
    /\ chunks' = <<NewChunk(ts_src_not_service)>>
    /\ pc' = "copy"
    /\ UNCHANGED <<stores, args, list_err, other, clock, run, locals, sweepA_log, sweepB_log, dst_before>>

\* Lines 229-239: replication.thread, one call of copy_ts per chunk.
ThreadDispatch ==
    /\ pc = "listed"
    /\ UseThreads
    /\ \E len \in thread_chunk_lens(args.num_threads, ts_src_not_service) :
         LET parts == ChunksOf(ts_src_not_service, len)
         IN chunks' = [c \in 1..Len(parts) |-> NewChunk(parts[c])]
    /\ mode' = "thread"
    /\ pc' = "copy"
    /\ UNCHANGED <<stores, args, list_err, other, clock, run, locals, sweepA_log, sweepB_log, dst_before>>

Running == {c \in 1..Len(chunks) : chunks[c].st \in {"create", "update"}}

\* A worker thread's exception ending the run.
thread_after_chunk_aborting(st) == IF st = "failed" THEN "error" ELSE "copy"

\* replication.thread: a worker thread that ends, in an exception or not,
\* leaves the other threads and the run as they are.
thread_after_chunk(st) == "copy"

\* Lines 241-255: the inline copy_ts returns to replicate, or its exception
\* leaves replicate.
inline_after_chunk(st) ==
    IF st = "done" THEN AfterCopy
    ELSE IF st = "failed" THEN "error"
    ELSE "copy"

PcAfterChunk(st) ==
    IF mode = "thread" THEN thread_after_chunk(st) ELSE inline_after_chunk(st)

\* Lines 119 and 124: the bulk call copy_ts makes first.
copy_ts_after_batch(create_ts, update_ts) ==
    IF create_ts # <<>> THEN "create"
    ELSE IF update_ts # <<>> THEN "update"
    ELSE "done"

\* copy_ts going on to the update when the create call has raised.
copy_ts_after_create_goes_on(r, update_ts) ==
    CASE r = "again" -> "create"
      [] update_ts # <<>> -> "update"
      [] OTHER -> "done"

\* Lines 121-124: where copy_ts is after an attempt of the create call that
\* retry answered with r; an exception of retry leaves copy_ts.
copy_ts_after_create(r, update_ts) ==
    CASE r = "again" -> "create"
      [] r = "ok" /\ update_ts # <<>> -> "update"
      [] r = "ok" -> "done"
      [] OTHER -> "failed"

(***************************************************************************)
(* copy_ts, lines 106-117: the batch is made; a worker thread takes a      *)
(* chunk when fewer than num_threads are at work.                          *)
(***************************************************************************)
CopyTsBegin(c) ==
    /\ pc = "copy"
    /\ chunks[c].st = "pending"
    /\ mode = "thread" => Cardinality(Running) < args.num_threads
    /\ LET b == copy_ts_batch(chunks[c].objs, src_id_dst_ts, src_dst_ids_assets, project_src, replicated_runtime)
           st == copy_ts_after_batch(b.create, b.update)
       IN /\ src_id_dst_ts' = b.map
          /\ chunks' = [chunks EXCEPT ![c].create_ts = b.create,
                                      ![c].update_ts = b.update,
                                      ![c].unchanged_ts = b.unchanged,
                                      ![c].st = st]
          /\ pc' = PcAfterChunk(st)
    /\ UNCHANGED <<stores, args, list_err, other, clock, run, mode, ts_src, ts_dst, src_dst_ids_assets, ts_src_not_service, replicated_runtime, sweepA_log, sweepB_log, dst_before>>

\* Lines 119-122: one attempt of retry(client.time_series.create, create_ts).
CreateAttempt(c, outcome) ==
    /\ pc = "copy"
    /\ chunks[c].st = "create"
    /\ LET calls == chunks[c].calls + 1
           r == retry_step(outcome, calls)
           st == copy_ts_after_create(r, chunks[c].update_ts)
       IN /\ chunks' = [chunks EXCEPT ![c].calls = IF r = "ok" THEN 0 ELSE calls,
                                      ![c].last = outcome,
                                      ![c].out = IF r \in {"again", "ok"} THEN "" ELSE r,
                                      ![c].failed_in = IF st = "failed" THEN "create" ELSE "",
                                      ![c].st = st]
          /\ dst' = IF r = "ok" THEN DstCreate(dst, chunks[c].create_ts, next_id) ELSE dst
          /\ next_id' = IF r = "ok" THEN next_id + Len(chunks[c].create_ts) ELSE next_id
          /\ pc' = PcAfterChunk(st)
    /\ UNCHANGED <<src, args, list_err, other, clock, run, mode, locals, sweepA_log, sweepB_log, dst_before>>

\* Lines 124-127: one attempt of retry(client.time_series.update, update_ts).
UpdateAttempt(c, outcome) ==
    /\ pc = "copy"
    /\ chunks[c].st = "update"
    /\ LET calls == chunks[c].calls + 1
           r == retry_step(outcome, calls)
           st == CASE r = "again" -> "update"
                   [] r = "ok" -> "done"
                   [] OTHER -> "failed"
       IN /\ chunks' = [chunks EXCEPT ![c].calls = IF r = "ok" THEN 0 ELSE calls,
                                      ![c].last = outcome,
                                      ![c].out = IF r \in {"again", "ok"} THEN "" ELSE r,
                                      ![c].failed_in = IF st = "failed" THEN "update" ELSE "",
                                      ![c].st = st]
          /\ dst' = IF r = "ok" THEN DstUpdate(dst, chunks[c].update_ts) ELSE dst
          /\ pc' = PcAfterChunk(st)
    /\ UNCHANGED <<src, next_id, args, list_err, other, clock, run, mode, locals, sweepA_log, sweepB_log, dst_before>>

\* replication.thread returns when every worker thread has ended.
ThreadJoin ==
    /\ pc = "copy"
    /\ mode = "thread"
    /\ \A c \in 1..Len(chunks) : chunks[c].st \in {"done", "failed"}
    /\ pc' = AfterCopy
    /\ UNCHANGED <<stores, args, list_err, other, clock, run, mode, locals, chunks, sweepA_log, sweepB_log, dst_before>>

(***************************************************************************)
(* Lines 255-266: the sweeps.                                              *)
(***************************************************************************)
SweepB ==
    /\ pc = "sweepB"
    /\ LET r == remove_replicated_if_not_in_src(src, dst)
       IN /\ sweepB_log' = [ran |-> TRUE, err |-> r.err, deleted |-> r.deleted, listing |-> r.listing, src_listing |-> r.src_listing]
          /\ dst' = IF r.err = "" THEN DstDelete(dst, r.deleted) ELSE dst
          /\ pc' = IF r.err = "" THEN AfterSweepB ELSE "error"
    /\ UNCHANGED <<src, next_id, args, list_err, other, clock, run, mode, locals, chunks, sweepA_log, dst_before>>

SweepA ==
    /\ pc = "sweepA"
    /\ LET r == remove_not_replicated_in_dst(dst)
       IN /\ sweepA_log' = [ran |-> TRUE, err |-> r.err, deleted |-> r.deleted, listing |-> r.listing]
          /\ dst' = IF r.err = "" THEN DstDelete(dst, r.deleted) ELSE dst
          /\ pc' = IF r.err = "" THEN "done" ELSE "error"
    /\ UNCHANGED <<src, next_id, args, list_err, other, clock, run, mode, locals, chunks, sweepB_log, dst_before>>

\* replicate is called again, with the same arguments.
NextRun ==
    /\ pc \in {"done", "error"}
    /\ run < MaxRuns
    /\ run' = run + 1
    /\ clock' = clock + 1
    /\ dst_before' = dst
    /\ pc' = "start"
    /\ mode' = "inline"
    /\ ts_src' = <<>> /\ ts_dst' = <<>> /\ src_id_dst_ts' = <<>>
    /\ src_dst_ids_assets' = <<>> /\ ts_src_not_service' = <<>>
    /\ replicated_runtime' = 0
    /\ chunks' = <<>>
    /\ sweepA_log' = NoSweepA
    /\ sweepB_log' = NoSweepB
    /\ UNCHANGED <<stores, args, list_err, other>>

\* One run of replicate; an attempt of a bulk call may end in any outcome.
Next ==
    \/ ReplicateList
    \/ InlineDispatch
    \/ ThreadDispatch
    \/ \E c \in 1..Len(chunks) : CopyTsBegin(c)
    \/ \E c \in 1..Len(chunks), outcome \in Outcomes : CreateAttempt(c, outcome)
    \/ \E c \in 1..Len(chunks), outcome \in Outcomes : UpdateAttempt(c, outcome)
    \/ ThreadJoin
    \/ SweepB
    \/ SweepA

Spec == Init /\ [][Next]_vars

\* Runs of replicate one after another, the destination never failing.
NextRerun ==
    \/ ReplicateList
    \/ InlineDispatch
    \/ ThreadDispatch
    \/ \E c \in 1..Len(chunks) : CopyTsBegin(c)
    \/ \E c \in 1..Len(chunks) : CreateAttempt(c, "ok")
    \/ \E c \in 1..Len(chunks) : UpdateAttempt(c, "ok")
    \/ ThreadJoin
    \/ SweepB
    \/ SweepA
    \/ NextRun

SpecRerun == Init /\ [][NextRerun]_vars

(***************************************************************************)
(* A run in which a listing call of replicate may raise: the listing of    *)
(* the source time series (line 201), of the destination time series (line *)
(* 202) or of the destination assets (line 208).  The calls are plain      *)
(* calls, outside retry, in that order; the locals assigned before the     *)
(* call that raises keep their values.                                     *)
(***************************************************************************)
ListingCalls == {"ts_src", "ts_dst", "assets_dst"}

\* A listing call under a retry that absorbs a transient error.
list_result_retried(outcome) == IF outcome = "fatal" THEN "error" ELSE "listed"

\* Where replicate is after a listing call that ended in `outcome`: an
\* exception, of any class, leaves replicate.
list_result(outcome) == IF outcome = "ok" THEN "listed" ELSE "error"

ListingFails(call, outcome) ==
    /\ pc = "start"
    /\ ts_src' = IF call = "ts_src" THEN <<>> ELSE src
    /\ ts_dst' = IF call = "assets_dst" THEN dst ELSE <<>>
    /\ src_id_dst_ts' = IF call = "assets_dst" THEN make_id_object_map(dst) ELSE <<>>
    /\ list_err' = [call |-> call, outcome |-> outcome]
    /\ pc' = list_result(outcome)
    /\ UNCHANGED <<stores, args, other, clock, run, mode, src_dst_ids_assets, ts_src_not_service, replicated_runtime, chunks, sweepA_log, sweepB_log, dst_before>>

NextListing ==
    \/ Next
    \/ \E call \in ListingCalls, outcome \in Outcomes \ {"ok"} : ListingFails(call, outcome)

SpecListing == Init /\ [][NextListing]_vars

(***************************************************************************)
(* Runs on source time series of every kind of parent: none (asset_id      *)
(* None), an asset with a replica in the destination (7), an asset with    *)
(* none (9).                                                               *)
(***************************************************************************)
Parents == {0, 7, 9}

RECURSIVE ParentListing(_, _)
ParentListing(ids, parent) ==
    IF ids = {} THEN <<>>
    ELSE LET m == CHOOSE i \in ids : \A j \in ids : i <= j
         IN <<[SrcSeries(m, FALSE) EXCEPT !.asset_id = parent[m]]>> \o ParentListing(ids \ {m}, parent)

ParentListings ==
    UNION {{ParentListing(ids, parent) : parent \in [ids -> Parents]} : ids \in SUBSET SrcIds}

InitParents == InitOn(ParentListings, {d \in DstListings : Len(d) <= 1})

SpecParents == InitParents /\ [][Next]_vars

(***************************************************************************)
(* Properties.                                                             *)
(***************************************************************************)
Ended == pc \in {"done", "error"}

\* A time series without the _replicatedTime entry of its metadata.
WithoutTime(ts) ==
    [ts EXCEPT !.metadata = [k \in DOMAIN ts.metadata \ {KTime} |-> ts.metadata[k]]]

TimeLess(list) == [i \in 1..Len(list) |-> WithoutTime(list[i])]

\* C1: when a second run of replicate has ended (same arguments, same
\* source, no failing call), the destination holds the same time series as
\* after the first run, equal in every field but the _replicatedTime
\* metadata value: the second run created none and deleted none.
C1_SecondRunChangesNothing ==
    (run >= 2 /\ pc = "done") => TimeLess(dst) = TimeLess(dst_before)

\* The source id a made object carries in its provenance.
MadeFrom(obj) == ParseInt(obj.metadata[KInternalId])

CountFrom(list, id) == Cardinality({j \in 1..Len(list) : MadeFrom(list[j]) = id})

\* The keys of the identity map of the run.
IdentityKeys == DOMAIN make_id_object_map(ts_dst)

Reconciled(c) == chunks[c].st # "pending"

\* C2: once copy_ts has made its batch, every source object it was handed
\* is in exactly one of create_ts and update_ts: in create_ts when its id
\* is no key of the identity map, in update_ts when it is; none is
\* unchanged, and the two lists together are as long as the input.
C2_PartitionComplete ==
    \A c \in 1..Len(chunks) :
        Reconciled(c) =>
            LET ch == chunks[c]
            IN /\ \A i \in 1..Len(ch.objs) :
                    LET id == ch.objs[i].id
                    IN IF id \in IdentityKeys
                       THEN CountFrom(ch.update_ts, id) = 1 /\ CountFrom(ch.create_ts, id) = 0
                       ELSE CountFrom(ch.create_ts, id) = 1 /\ CountFrom(ch.update_ts, id) = 0
               /\ ch.unchanged_ts = <<>>
               /\ Len(ch.create_ts) + Len(ch.update_ts) = Len(ch.objs)

\* C2's case: a batch with an object to create and an object to update.
C2_Witness ==
    \E c \in 1..Len(chunks) :
        Reconciled(c) /\ chunks[c].create_ts # <<>> /\ chunks[c].update_ts # <<>>

KeyIn(ts, key) == key \in DOMAIN ts.metadata

\* C3: sweep A ends without an error and deletes exactly the time series of
\* its listing whose metadata lacks the _replicatedSource key.
C3_SweepADeletesUnreplicated ==
    sweepA_log.ran =>
        /\ sweepA_log.err = ""
        /\ sweepA_log.deleted =
             {sweepA_log.listing[i].id : i \in {j \in 1..Len(sweepA_log.listing) : ~KeyIn(sweepA_log.listing[j], KSource)}}

\* A time series tagged with an id (a non-empty value) that no time series
\* of the source has.
IsStale(ts, src_list) ==
    /\ KeyIn(ts, KInternalId)
    /\ Truthy(ts.metadata[KInternalId])
    /\ \A i \in 1..Len(src_list) : IntToStr(src_list[i].id) # ts.metadata[KInternalId]

StaleIds(dst_list, src_list) ==
    {dst_list[i].id : i \in {j \in 1..Len(dst_list) : IsStale(dst_list[j], src_list)}}

\* C4: a sweep B that ends without an error has deleted exactly the time
\* series of its destination listing that carry a _replicatedInternalId
\* which is the id of no time series of its source listing.
C4_SweepBDeletesStale ==
    (sweepB_log.ran /\ sweepB_log.err = "") =>
        sweepB_log.deleted = StaleIds(sweepB_log.listing, sweepB_log.src_listing)

Malformed(ts) ==
    /\ KeyIn(ts, KInternalId)
    /\ Truthy(ts.metadata[KInternalId])
    /\ ~ParsesAsInt(ts.metadata[KInternalId])

WellFormedStaleIds(dst_list, src_list) ==
    {dst_list[i].id : i \in {j \in 1..Len(dst_list) :
        IsStale(dst_list[j], src_list) /\ ParsesAsInt(dst_list[j].metadata[KInternalId])}}

\* C5: a sweep B whose listing holds a time series with a
\* _replicatedInternalId that does not parse ends without an error, leaves
\* that time series and deletes the stale replicas whose id parses.
C5_MalformedSkipped ==
    (sweepB_log.ran /\ \E i \in 1..Len(sweepB_log.listing) : Malformed(sweepB_log.listing[i])) =>
        /\ sweepB_log.err = ""
        /\ pc # "error"
        /\ \A i \in 1..Len(sweepB_log.listing) :
              Malformed(sweepB_log.listing[i]) => sweepB_log.listing[i].id \notin sweepB_log.deleted
        /\ WellFormedStaleIds(sweepB_log.listing, sweepB_log.src_listing) \subseteq sweepB_log.deleted

\* C6: a sweep runs, and calls delete, only when its flag is set; with
\* neither flag set every time series the destination held when the run
\* began is still there.
C6_SweepsOptIn ==
    /\ ~args.delete_replicated_if_not_in_src => sweepB_log = NoSweepB
    /\ ~args.delete_not_replicated_in_dst => sweepA_log = NoSweepA
    /\ (~args.delete_replicated_if_not_in_src /\ ~args.delete_not_replicated_in_dst)
         => Ids(dst_before) \subseteq Ids(dst)

\* C6's case: a run with the default flags has ended on a destination that
\* holds a time series either sweep would delete, and a created one.
C6_Witness ==
    /\ pc = "done"
    /\ ~args.delete_replicated_if_not_in_src /\ ~args.delete_not_replicated_in_dst
    /\ \E i \in 1..Len(dst) : dst[i].metadata = NoMetadata
    /\ \E i \in 1..Len(dst) : IsStale(dst[i], src)
    /\ Len(dst) > Len(dst_before)

ChunkObjs == [c \in 1..Len(chunks) |-> chunks[c].objs]

\* C7: the worker threads' chunks are the contiguous slices of batch_size
\* objects of the filtered source list, in order, only the last one
\* possibly shorter, and at most num_threads of them are at work.
C7_ChunksOfBatchSize ==
    (mode = "thread" /\ pc = "copy") =>
        /\ ChunkObjs = ChunksOf(ts_src_not_service, args.batch_size)
        /\ Cardinality(Running) <= args.num_threads

InCall(c) == chunks[c].st \in {"create", "update"}

\* C8: a bulk call is attempted at most MaxTries times; when the attempt
\* that ended in a transient error was the MaxTries-th (every attempt
\* before it ended in one too) the call has surfaced PersistentFailure and
\* its chunk has not succeeded; before that the call is still being tried.
C8_RetryExhaustion ==
    \A c \in 1..Len(chunks) :
        /\ chunks[c].calls <= MaxTries
        /\ chunks[c].last = "transient" =>
              IF chunks[c].calls = MaxTries
              THEN chunks[c].st = "failed" /\ chunks[c].out = "PersistentFailure"
              ELSE InCall(c) /\ chunks[c].out = ""
        /\ chunks[c].out = "PersistentFailure" =>
              chunks[c].calls = MaxTries /\ chunks[c].last = "transient"

\* C8's case: a bulk call has used up its attempts.
C8_Witness == \E c \in 1..Len(chunks) : chunks[c].out = "PersistentFailure"

\* C9 as stated: a bulk call that raised a non-transient error was
\* attempted exactly once.
C9_NonTransientInvokedOnce ==
    \A c \in 1..Len(chunks) : chunks[c].out = "APIError" => chunks[c].calls = 1

\* C9, amended: the attempt of a bulk call that ends in a non-transient
\* error is the call's last one (the error is surfaced at once, the chunk's
\* copy_ts has failed with it), and the call's only one when it is the
\* first attempt that ends in it.
C9_NonTransientNotRetried ==
    \A c \in 1..Len(chunks) :
        /\ chunks[c].last = "fatal" =>
              /\ chunks[c].st = "failed"
              /\ chunks[c].out = "APIError"
              /\ chunks[c].calls <= MaxTries
        /\ chunks[c].out = "APIError" => chunks[c].last = "fatal"

\* C9's case: a bulk call has raised a non-transient error on an attempt
\* that followed a transient one.
C9_Witness ==
    \E c \in 1..Len(chunks) : chunks[c].out = "APIError" /\ chunks[c].calls > 1

\* The created and updated time series of a chunk are in the destination.
Applied(c) ==
    /\ \A i \in 1..Len(chunks[c].create_ts) :
          \E j \in 1..Len(dst) : [dst[j] EXCEPT !.id = 0] = chunks[c].create_ts[i]
    /\ \A i \in 1..Len(chunks[c].update_ts) :
          \E j \in 1..Len(dst) : dst[j] = chunks[c].update_ts[i]

CopyOver == pc \in {"sweepB", "sweepA", "done", "error"}
NoSweepYet == ~sweepA_log.ran /\ ~sweepB_log.ran

\* C10: in a run with worker threads, while chunks are left to process the
\* run goes on and a chunk can take a step, whatever failed before; when
\* the copying is over every chunk has ended, and every chunk whose own
\* calls did not fail has its created and updated time series in the
\* destination.
C10_SiblingChunksComplete ==
    mode = "thread" =>
        /\ (\E c \in 1..Len(chunks) : chunks[c].st \notin {"done", "failed"}) =>
              /\ pc = "copy"
              /\ \E c \in 1..Len(chunks) :
                    \/ InCall(c)
                    \/ chunks[c].st = "pending" /\ Cardinality(Running) < args.num_threads
        /\ (CopyOver /\ NoSweepYet) =>
              \A c \in 1..Len(chunks) :
                  /\ chunks[c].st \in {"done", "failed"}
                  /\ chunks[c].st = "done" => Applied(c)

\* C10's case: the copying is over, one chunk has failed and another has
\* created or updated its time series.
C10_Witness ==
    /\ mode = "thread" /\ CopyOver /\ NoSweepYet
    /\ \E c, d \in 1..Len(chunks) :
          /\ chunks[c].st = "failed"
          /\ chunks[d].st = "done"
          /\ chunks[d].create_ts \o chunks[d].update_ts # <<>>

ReservedKeys == {KSource, KTime, KInternalId}

\* The ids of the time series the run has updated: those of the update
\* list of every chunk whose update call has succeeded.
UpdatedIds ==
    UNION {Ids(chunks[c].update_ts) : c \in {d \in 1..Len(chunks) : chunks[d].st = "done"}}

\* The ids of the time series the run has created or updated so far.
WrittenIds == (Ids(dst) \ Ids(dst_before)) \cup UpdatedIds

\* The replicated fields of ts (all but the parent) are those of the source
\* time series s, the entries of its metadata included.
CopiedFrom(ts, s) ==
    /\ ts.external_id = s.external_id
    /\ ts.name = s.name
    /\ ts.is_string = s.is_string
    /\ ts.unit = s.unit
    /\ ts.is_step = s.is_step
    /\ ts.description = s.description
    /\ ts.security_categories = s.security_categories
    /\ \A k \in DOMAIN s.metadata \ ReservedKeys :
          k \in DOMAIN ts.metadata /\ ts.metadata[k] = s.metadata[k]

\* C11: in every run, every time series of the destination that the run has
\* created or updated carries the three reserved keys: _replicatedSource is
\* the source project, _replicatedTime is the one timestamp of the run
\* (whatever the chunk or thread that wrote it), and _replicatedInternalId
\* parses to the id of the source time series whose fields it carries;
\* every other time series is as it was when the run began, so one written
\* by an earlier run keeps that run's provenance and one never written
\* gains no key.
C11_ProvenanceOfWritten ==
    \A j \in 1..Len(dst) :
        IF dst[j].id \in WrittenIds
        THEN /\ ReservedKeys \subseteq DOMAIN dst[j].metadata
             /\ dst[j].metadata[KSource] = project_src
             /\ dst[j].metadata[KTime] = RuntimeStr(replicated_runtime)
             /\ ParsesAsInt(dst[j].metadata[KInternalId])
             /\ \E i \in 1..Len(ts_src_not_service) :
                   /\ ts_src_not_service[i].id = ParseInt(dst[j].metadata[KInternalId])
                   /\ CopiedFrom(dst[j], ts_src_not_service[i])
        ELSE \E i \in 1..Len(dst_before) : dst_before[i] = dst[j]

\* C11's case: a second run at work with threads has written one time
\* series; another still carries the first run's timestamp, and a third was
\* never written.
C11_Witness ==
    /\ run = 2 /\ mode = "thread"
    /\ \E j \in 1..Len(dst) : dst[j].id \in UpdatedIds
    /\ \E j \in 1..Len(dst) :
          /\ dst[j].id \notin WrittenIds
          /\ KeyIn(dst[j], KTime)
          /\ dst[j].metadata[KTime] = RuntimeStr(Runtime(clock - 1))
    /\ \E j \in 1..Len(dst) : dst[j].metadata = NoMetadata

\* The parent the relation map gives a source parent id: the map's value
\* for a key of the map, None (0) for None and for an id the map lacks.
ParentIn(relation_map, asset_id) ==
    IF asset_id \in DOMAIN relation_map THEN relation_map[asset_id] ELSE 0

\* The made object of the chunk for the source object o, if there is one.
MaterialsOf(c, o) ==
    {m \in {chunks[c].create_ts[i] : i \in 1..Len(chunks[c].create_ts)}
             \cup {chunks[c].update_ts[i] : i \in 1..Len(chunks[c].update_ts)} :
        MadeFrom(m) = o.id}

\* C12: once copy_ts has made its batch, every source object of the chunk
\* has its made object, in create_ts or update_ts, whatever its parent, and
\* the made object's asset_id is the relation map's value for the source's
\* asset_id when the map has that key and None (0) when the source has no
\* parent or the map lacks it; and when the chunk's calls have succeeded
\* the made objects are in the destination as made.
C12_UnresolvedParentIsNone ==
    \A c \in 1..Len(chunks) :
        /\ Reconciled(c) =>
              \A i \in 1..Len(chunks[c].objs) :
                  LET o == chunks[c].objs[i]
                  IN /\ MaterialsOf(c, o) # {}
                     /\ \A m \in MaterialsOf(c, o) :
                           m.asset_id = ParentIn(existing_mapping(assets_dst_store), o.asset_id)
        /\ (chunks[c].st = "done" /\ NoSweepYet) => Applied(c)

\* C12's case: a chunk whose calls have succeeded created one time series
\* and updated another, one made from a source time series whose parent
\* has no replica and one from a source time series with no parent.
C12_Witness ==
    \E c \in 1..Len(chunks) :
        /\ chunks[c].st = "done"
        /\ chunks[c].create_ts # <<>> /\ chunks[c].update_ts # <<>>
        /\ \E i, k \in 1..Len(chunks[c].objs) :
              chunks[c].objs[i].asset_id = 9 /\ chunks[c].objs[k].asset_id = 0

\* The time series of the list that carry the tag (the text of a source id)
\* as their _replicatedInternalId.
TaggedWith(list, tag) ==
    {j \in 1..Len(list) : KeyIn(list[j], KInternalId) /\ list[j].metadata[KInternalId] = tag}

BothSweeps == args.delete_replicated_if_not_in_src /\ args.delete_not_replicated_in_dst

\* C13: when a run with both sweeps set has ended without an error (no
\* call failing), every source time series that is no service account
\* metric has a time series in the destination tagged with its id and
\* carrying its fields, and every time series of the destination carries
\* the three reserved keys with a _replicatedInternalId that is the id of a
\* time series of the source.
C13_FullRunConverges ==
    (pc = "done" /\ BothSweeps) =>
        /\ \A i \in 1..Len(src) :
              ~ContainsServiceAccountMetrics(src[i].name) =>
                  \E j \in TaggedWith(dst, IntToStr(src[i].id)) : CopiedFrom(dst[j], src[i])
        /\ \A j \in 1..Len(dst) :
              /\ ReservedKeys \subseteq DOMAIN dst[j].metadata
              /\ \E i \in 1..Len(src) : j \in TaggedWith(dst, IntToStr(src[i].id))

\* C14: once copy_ts has made the batch of a chunk, its inputs are as they
\* were built from the listings: the source list, the relation map, and the
\* identity map with every matched destination object as the destination
\* listing returned it.
C14_ReconcileLeavesInputs ==
    (\E c \in 1..Len(chunks) : Reconciled(c)) =>
        /\ ts_src = src
        /\ ts_src_not_service = filter_away_service_account_ts(src)
        /\ src_dst_ids_assets = existing_mapping(assets_dst_store)
        /\ src_id_dst_ts = make_id_object_map(dst_before)

\* A sweep is about to list the destination, or has run.
SweepBegun == pc \in {"sweepB", "sweepA"} \/ sweepA_log.ran \/ sweepB_log.ran

\* C15: a sweep begins only when the run has its chunks and every chunk has
\* ended, its calls succeeded or failed, with or without worker threads;
\* when sweep B is about to run sweep A has not run, and with both flags
\* set sweep A begins only after sweep B has ended without an error.
C15_SweepsAfterApply ==
    /\ SweepBegun =>
          /\ chunks # <<>>
          /\ \A c \in 1..Len(chunks) : chunks[c].st \in {"done", "failed"}
    /\ pc = "sweepB" => ~sweepA_log.ran /\ ~sweepB_log.ran
    /\ ((pc = "sweepA" \/ sweepA_log.ran) /\ args.delete_replicated_if_not_in_src) =>
          sweepB_log.ran /\ sweepB_log.err = ""

\* C15's case: a run with worker threads, one chunk failed and one
\* succeeded, has run sweep B and then sweep A.
C15_Witness ==
    /\ mode = "thread"
    /\ \E c, d \in 1..Len(chunks) : chunks[c].st = "failed" /\ chunks[d].st = "done"
    /\ sweepB_log.ran /\ sweepA_log.ran

\* How many times the source time series s is among the objects handed to
\* the calls of copy_ts of the run.
TimesPassed(s) ==
    Cardinality({<<c, i>> \in (1..Len(chunks)) \X (1..Cardinality(SrcIds)) :
                    i <= Len(chunks[c].objs) /\ chunks[c].objs[i] = s})

IsService(s) == ContainsServiceAccountMetrics(s.name)

\* C16: once the run has handed its objects to copy_ts, a source time
\* series whose name contains "service_account_metrics" is in no chunk and
\* every other one is in exactly one chunk, once; no time series the run
\* has written carries the tag or the fields of a service account metric;
\* and the run is inline exactly when the number of source time series
\* left by the filter is at most batch_size.
C16_ServiceAccountNotReplicated ==
    chunks # <<>> =>
        /\ \A i \in 1..Len(src) :
              TimesPassed(src[i]) = IF IsService(src[i]) THEN 0 ELSE 1
        /\ \A j \in 1..Len(dst) :
              dst[j].id \in WrittenIds =>
                  \A i \in 1..Len(src) :
                      IsService(src[i]) =>
                          /\ j \notin TaggedWith(dst, IntToStr(src[i].id))
                          /\ dst[j].name # src[i].name
        /\ mode = "inline" <=>
              Cardinality({i \in 1..Len(src) : ~IsService(src[i])}) <= args.batch_size

\* C16's case: a run has ended on a source of two time series, one of them
\* a service account metric with a replica in the destination, with
\* batch_size 1: the run was inline and wrote the other one only.
C16_Witness ==
    /\ pc = "done" /\ Len(src) = 2 /\ args.batch_size = 1
    /\ \E i \in 1..Len(src) :
          IsService(src[i]) /\ TaggedWith(dst, IntToStr(src[i].id)) # {}
    /\ WrittenIds # {}

\* At most one time series of the list per _replicatedInternalId value.
UniquePerTag(list) ==
    \A i, j \in 1..Len(list) :
        (i # j /\ KeyIn(list[i], KInternalId) /\ KeyIn(list[j], KInternalId)) =>
            list[i].metadata[KInternalId] # list[j].metadata[KInternalId]

\* C17: in runs one after another with no failing call, whatever the flags,
\* a run that began on a destination with at most one time series per
\* _replicatedInternalId value never leaves it with two of the same value;
\* so runs that start from such a destination keep it so, run after run.
C17_ReplicasStayUnique == UniquePerTag(dst_before) => UniquePerTag(dst)

\* C17's case: a second run has ended on a source of two time series that
\* both had their replica: it updated them and created none.
C17_Witness ==
    /\ run = 2 /\ pc = "done"
    /\ UniquePerTag(dst_before)
    /\ Len(src) = 2 /\ Cardinality(UpdatedIds) = 2
    /\ Ids(dst) \ Ids(dst_before) = {}

(***************************************************************************)
(* Two runs of replicate at work at the same time on the same source and   *)
(* destination.  The second run (`other`) is called with a batch_size no   *)
(* smaller than the source, so its copy_ts is inline; it takes its         *)
(* listings and makes its batch (lines 201-222 and 107-115, no call to the *)
(* destination in between), then makes its bulk calls.  Both runs are      *)
(* called with the default flags, no call fails, and the destination       *)
(* begins with at most one time series per _replicatedInternalId.          *)
(***************************************************************************)
\* The second run handing make_objects_batch an empty identity map.
OtherBatchUnmatched(listing) ==
    copy_ts_batch(filter_away_service_account_ts(src), <<>>, existing_mapping(assets_dst_store), project_src, Runtime(clock + 1))

\* The batch the second run makes from the destination listing it took.
OtherBatch(listing) ==
    copy_ts_batch(filter_away_service_account_ts(src), make_id_object_map(listing), existing_mapping(assets_dst_store), project_src, Runtime(clock + 1))

OtherReplicateList ==
    /\ other.pc = "off"
    /\ LET b == OtherBatch(dst)
           st == copy_ts_after_batch(b.create, b.update)
       IN other' = [pc |-> IF st = "done" THEN AfterCopy ELSE st,
                    ts_dst |-> dst, create_ts |-> b.create, update_ts |-> b.update]
    /\ UNCHANGED <<stores, args, list_err, clock, run, pc, mode, locals, chunks, sweepA_log, sweepB_log, dst_before>>

OtherCreate ==
    /\ other.pc = "create"
    /\ dst' = DstCreate(dst, other.create_ts, next_id)
    /\ next_id' = next_id + Len(other.create_ts)
    /\ LET st == copy_ts_after_create("ok", other.update_ts)
       IN other' = [other EXCEPT !.pc = IF st = "done" THEN AfterCopy ELSE st]
    /\ UNCHANGED <<src, args, list_err, clock, run, pc, mode, locals, chunks, sweepA_log, sweepB_log, dst_before>>

OtherUpdate ==
    /\ other.pc = "update"
    /\ dst' = DstUpdate(dst, other.update_ts)
    /\ other' = [other EXCEPT !.pc = AfterCopy]
    /\ UNCHANGED <<src, next_id, args, list_err, clock, run, pc, mode, locals, chunks, sweepA_log, sweepB_log, dst_before>>

InitConcurrent ==
    /\ InitOn(SrcListings, {d \in DstListings : UniquePerTag(d)})
    /\ ~args.delete_replicated_if_not_in_src
    /\ ~args.delete_not_replicated_in_dst

NextConcurrent ==
    \/ ReplicateList
    \/ InlineDispatch
    \/ ThreadDispatch
    \/ \E c \in 1..Len(chunks) : CopyTsBegin(c)
    \/ \E c \in 1..Len(chunks) : CreateAttempt(c, "ok")
    \/ \E c \in 1..Len(chunks) : UpdateAttempt(c, "ok")
    \/ ThreadJoin
    \/ OtherReplicateList
    \/ OtherCreate
    \/ OtherUpdate

SpecConcurrent == InitConcurrent /\ [][NextConcurrent]_vars

\* The source ids that two or more time series of the destination carry as
\* their _replicatedInternalId.
DuplicatedIds ==
    {k \in SrcIds : Cardinality(TaggedWith(dst, IntToStr(k))) >= 2}

\* C18: with two runs at work at the same time the destination comes to
\* hold two time series tagged with the same source id (C18_Witness), which
\* runs one after another never reach (C17); and it does so only when the
\* two runs have both taken their destination listing before either had
\* created a time series with that tag: neither listing holds the tag.
C18_DuplicateOnlyFromStaleListings ==
    \A k \in DuplicatedIds :
        /\ pc # "start" /\ other.pc # "off"
        /\ TaggedWith(ts_dst, IntToStr(k)) = {}
        /\ TaggedWith(other.ts_dst, IntToStr(k)) = {}
        /\ Cardinality(TaggedWith(dst, IntToStr(k))) = 2

\* C18's case: both runs have ended and the destination, which began with
\* at most one time series per tag, holds two with the same source id.
C18_Witness ==
    /\ pc = "done" /\ other.pc = "done"
    /\ UniquePerTag(dst_before)
    /\ DuplicatedIds # {}

\* The time series of the chunk's create list are in the destination.
CreateApplied(c) ==
    \A i \in 1..Len(chunks[c].create_ts) :
        \E j \in 1..Len(dst) : [dst[j] EXCEPT !.id = 0] = chunks[c].create_ts[i]

\* No time series of the chunk's update list has been updated: each is in
\* the destination as it was when the run began, or deleted by a sweep.
NoneUpdated(c) ==
    \A i \in 1..Len(chunks[c].update_ts), j \in 1..Len(dst) :
        dst[j].id = chunks[c].update_ts[i].id =>
            \E k \in 1..Len(dst_before) : dst_before[k] = dst[j]

\* C19: in every chunk the create call is made only on a non-empty create
\* list and the update call only on a non-empty update list, after the
\* create call (if any) has succeeded; a chunk whose create call has
\* raised, after its retries or at once, has ended there: its update call
\* is not made and none of its matched time series is updated.
C19_CreateBeforeUpdate ==
    \A c \in 1..Len(chunks) :
        /\ chunks[c].st = "create" => chunks[c].create_ts # <<>> /\ NoneUpdated(c)
        /\ chunks[c].st = "update" => chunks[c].update_ts # <<>> /\ CreateApplied(c)
        /\ chunks[c].failed_in = "update" => CreateApplied(c)
        /\ chunks[c].failed_in = "create" =>
              /\ chunks[c].st = "failed"
              /\ chunks[c].out \in {"PersistentFailure", "APIError"}
              /\ NoneUpdated(c)
        /\ (chunks[c].st = "done" /\ NoSweepYet) => Applied(c)

\* C19's case: the create call of a chunk with a non-empty update list has
\* raised after its retries.
C19_Witness ==
    \E c \in 1..Len(chunks) :
        /\ chunks[c].failed_in = "create"
        /\ chunks[c].out = "PersistentFailure"
        /\ chunks[c].update_ts # <<>>

\* A call of copy_ts or a sweep has begun, or the destination has changed.
WriteBegun == chunks # <<>> \/ SweepBegun \/ dst # dst_before

\* C20: a run in which a listing call has raised, whatever the class of the
\* error, has ended in the error: it has no chunk, ran no sweep and left
\* the destination as it was; and a run that has begun its create, update
\* or delete calls has taken its three listings, none of which raised.
C20_ListingFailureWritesNothing ==
    /\ list_err # NoListErr =>
          /\ pc = "error"
          /\ ~WriteBegun
          /\ ~sweepA_log.ran /\ ~sweepB_log.ran
    /\ WriteBegun =>
          /\ list_err = NoListErr
          /\ ts_src = src
          /\ ts_dst = dst_before
          /\ src_dst_ids_assets = existing_mapping(assets_dst_store)
    /\ pc = "start" => ~WriteBegun

\* C20's case: the last of the three listings, that of the destination's
\* assets, has raised a transient error after the two others returned time
\* series, and the run has ended.
C20_Witness ==
    /\ list_err = [call |-> "assets_dst", outcome |-> "transient"]
    /\ pc = "error"
    /\ ts_src # <<>> /\ ts_dst # <<>>
    /\ dst = dst_before

====
